---- MODULE Spec2Model ----
(***************************************************************************)
(* Model of the WhatsApp bulk-messaging backend (src/unnamed/part_003, the *)
(* current server; src/backend/server.js is its earlier revision).         *)
(*                                                                         *)
(* Strings are sequences of one-character strings, so that the digit      *)
(* stripping and prefix tests of normalizeTZ are computed, not assumed.    *)
(* Every request handler is cut at its awaits on the database: the part   *)
(* up to the write is one step (the query's read and the synchronous code  *)
(* that follows it), the write with the response is the next.              *)
(***************************************************************************)
EXTENDS Integers, Sequences, FiniteSets, TLC

VARIABLES
    \* ---- phone normalization, applied to one input
    raw, once, twice, normStep,
    \* ---- contact store (MongoDB collection contactsets) and its requests
    docs, pc, local, resp, uploads,
    \* ---- session with the messaging network
    sock, live, timers, starting, latestQR, connectionStatus, lastClose,
    \* ---- broadcasts
    sendingProgress, sendingLogs, history, run,
    \* ---- directory access
    googleTokens, credentials, token,
    \* ---- dashboard channel
    observer

normVars == <<raw, once, twice, normStep>>
storeVars == <<docs, pc, local, resp, uploads>>
connVars == <<sock, live, timers, starting, latestQR, connectionStatus, lastClose>>
sendVars == <<sendingProgress, sendingLogs, history, run>>
tokenVars == <<googleTokens, credentials, token>>
vars == <<normVars, storeVars, connVars, sendVars, tokenVars, observer>>

\* what the steps of one part of the program leave alone
notNorm == <<storeVars, connVars, sendVars, tokenVars, observer>>
notStore == <<normVars, connVars, sendVars, tokenVars, observer>>
notUpload == <<notStore, uploads>>
notConn == <<normVars, storeVars, sendVars, tokenVars>>
notSend == <<normVars, pc, local, resp, uploads, sock, live, timers, starting, latestQR, lastClose, tokenVars>>
notToken == <<normVars, storeVars, connVars, sendVars, observer>>
notDash == <<normVars, storeVars, connVars, sendVars, tokenVars>>

-----------------------------------------------------------------------------
(* Bounds of the model *)

\* longest free prefix of a normalization input
MaxPre == 3
\* rows of one uploaded batch / numbers of one directory save
MaxRows == 2
\* contacts of the set that is broadcast to
MaxSend == 3
\* broadcast requests
MaxRuns == 2
\* contact subdocuments alive at once, stored or held by a request in flight
MaxCids == 2

-----------------------------------------------------------------------------
(* JavaScript values *)

\* null and undefined, kept apart from every string (a string is a sequence
\* of one-character strings)
NULL == <<"null">>
UNDEF == <<"undefined">>

Digit == {"0", "1", "2", "3", "4", "5", "6", "7", "8", "9"}

\* s.replace(/\D/g, '')
StripNonDigits(s) == SelectSeq(s, LAMBDA c : c \in Digit)

\* s.startsWith(p)
StartsWith(s, p) == Len(s) >= Len(p) /\ SubSeq(s, 1, Len(p)) = p

\* s.slice(k)
Slice(s, k) == SubSeq(s, k + 1, Len(s))

\* !v for a string or null/undefined
Falsy(v) == v = NULL \/ v = UNDEF \/ v = <<>>

\* the length of a bare national number
NationalLen == 9

CC == <<"2", "5", "5">>

\* function normalizeTZ(raw)
\* normalizeTZ without its last rule, the national 9-digit form
normalizeTZ_NoNational(rawPhone) ==
    LET n0 == StripNonDigits(IF Falsy(rawPhone) THEN <<>> ELSE rawPhone)
        n1 == IF StartsWith(n0, <<"0", "0">>) THEN Slice(n0, 2) ELSE n0
        n2 == IF StartsWith(n1, <<"0">>) THEN CC \o Slice(n1, 1) ELSE n1
    IN  IF n0 = <<>> THEN NULL ELSE n2

normalizeTZ(rawPhone) ==
    LET n0 == StripNonDigits(IF Falsy(rawPhone) THEN <<>> ELSE rawPhone)
        n1 == IF StartsWith(n0, <<"0", "0">>) THEN Slice(n0, 2) ELSE n0
        n2 == IF StartsWith(n1, <<"0">>) THEN CC \o Slice(n1, 1) ELSE n1
        n3 == IF ~StartsWith(n2, CC) /\ Len(n2) = NationalLen THEN CC \o n2 ELSE n2
    IN  IF n0 = <<>> THEN NULL ELSE n3

-----------------------------------------------------------------------------
(* Inputs of the normalization check *)

Chars == {"0", "2", "5", "7", "-"}

RECURSIVE SeqsUpTo(_, _)
SeqsUpTo(S, n) ==
    IF n = 0 THEN {<<>>}
    ELSE LET shorter == SeqsUpTo(S, n - 1)
         IN  shorter \cup {Append(s, c) : s \in shorter, c \in S}

Tails == {<<>>,
          <<"1", "2", "3", "4", "5", "6", "7", "8">>,
          <<"7", "1", "2", "3", "4", "5", "6", "7", "8">>}

NormInputs == {p \o t : p \in SeqsUpTo(Chars, MaxPre), t \in Tails} \cup {NULL}

NormInit ==
    /\ raw \in NormInputs
    /\ once = NULL
    /\ twice = NULL
    /\ normStep = 0

\* const a = normalizeTZ(raw)
Normalize ==
    /\ normStep = 0
    /\ once' = normalizeTZ(raw)
    /\ normStep' = 1
    /\ UNCHANGED <<raw, twice>>
    /\ UNCHANGED notNorm

\* normalizeTZ(a)
NormalizeAgain ==
    /\ normStep = 1
    /\ twice' = normalizeTZ(once)
    /\ normStep' = 2
    /\ UNCHANGED <<raw, once>>
    /\ UNCHANGED notNorm

\* C2: normalizing a normalized value gives that value again, the invalid
\* sentinel included.
C2_Idempotent == normStep = 2 => twice = once

-----------------------------------------------------------------------------
(* Contact store: the contactsets collection as Mongoose reads and writes it *)

SetNames == {<<"A">>, <<"B">>}
John == <<"J", "o", "h", "n">>

R1a == <<"0", "7", "1", "2", "3", "4", "5", "6", "7", "8">>
R1b == <<"7", "1", "2", "3", "4", "5", "6", "7", "8">>
R2 == <<"+", "2", "5", "5", "6">>
R00 == <<"0", "0">>
RawPhones == {R1a, R1b, R2, R00}

\* the normalized form of R1a and R1b
P1 == <<"2", "5", "5", "7", "1", "2", "3", "4", "5", "6", "7", "8">>

\* s.trim()
RECURSIVE Trim(_)
Trim(s) ==
    IF s = <<>> THEN s
    ELSE IF Head(s) = " " THEN Trim(Tail(s))
    ELSE IF s[Len(s)] = " " THEN Trim(SubSeq(s, 1, Len(s) - 1))
    ELSE s

NewNames == SetNames \cup {UNDEF, <<" ">>, <<" ", "B">>}

\* set.contacts.map((c) => c.phone), as a set
Phones(contacts) == {contacts[i].phone : i \in 1..Len(contacts)}

\* ContactSet.findOne({ name }): the _id of the document, 0 for null
FindOne(name) ==
    IF \E d \in DOMAIN docs : docs[d].name = name
    THEN CHOOSE d \in DOMAIN docs : docs[d].name = name
    ELSE 0

\* the requests that hold a document while their save is awaited
Saving == {q \in DOMAIN pc : pc[q] = "saving"}

\* An ObjectId is never issued twice. Ids are compared only with ids that are
\* stored or held by a request in flight, so a new one is the least of the
\* ids that none of those uses.
UsedDocIds == DOMAIN docs \cup {local[q].doc.id : q \in Saving}
NewDocId == CHOOSE n \in 1..(Cardinality(UsedDocIds) + 1) : n \notin UsedDocIds

ContactIds(contacts) == {contacts[i].id : i \in 1..Len(contacts)}
UsedCids ==
    UNION {ContactIds(docs[d].contacts) : d \in DOMAIN docs}
    \cup UNION {ContactIds(local[q].doc.contacts) : q \in Saving}
FreeCids == (1..MaxCids) \ UsedCids

RECURSIVE Least(_, _)
Least(S, k) ==
    IF k = 0 THEN <<>>
    ELSE LET m == CHOOSE x \in S : \A y \in S : x <= y
         IN  <<m>> \o Least(S \ {m}, k - 1)

\* the document a query returned
Load(d) ==
    [id |-> d, isNew |-> FALSE, name |-> docs[d].name, contacts |-> docs[d].contacts]

\* new ContactSet({ name, contacts: [] })
NewSet(name) ==
    [id |-> NewDocId, isNew |-> TRUE, name |-> name, contacts |-> <<>>]

\* let set = await ContactSet.findOne(...); if (!set) set = new ContactSet(...)
FindOrNew(name) ==
    IF FindOne(name) = 0 THEN NewSet(name) ELSE Load(FindOne(name))

\* set.contacts.id(contactId): the index of the subdocument, 0 for null
SubdocIndex(contacts, cid) ==
    IF \E i \in 1..Len(contacts) : contacts[i].id = cid
    THEN CHOOSE i \in 1..Len(contacts) : contacts[i].id = cid
    ELSE 0

NoDelta == [op |-> "none"]
NoLocal == [kind |-> "none"]
NoResp == [kind |-> "none"]

\* The operations that increment the stored __v of a document
Increments(l) == ~l.doc.isNew /\ l.delta.op \in {"push", "pull"}

\* set.save() as Mongoose sends it: a new document is inserted (the unique
\* index on name rejects a second document of that name); an array push is a
\* $push on the stored array that increments __v; removing a subdocument is a
\* $pull that increments __v and setting a subdocument's field a positional
\* $set, both sent with the loaded __v in the filter; setting name is a $set
\* filtered by _id alone. __v is kept as what it is compared for: l.fresh
\* says that the stored __v is still the loaded one.
SaveDoc(ds, l) ==
    LET d == l.doc.id
        fail == [ok |-> FALSE, docs |-> ds]
        put(rec) == [ok |-> TRUE,
                     docs |-> [e \in DOMAIN ds \cup {d} |-> IF e = d THEN rec ELSE ds[e]]]
    IN  IF l.doc.isNew
        THEN IF \E e \in DOMAIN ds : ds[e].name = l.doc.name
             THEN fail
             ELSE put([name |-> l.doc.name, contacts |-> l.doc.contacts])
        ELSE CASE l.delta.op = "none" -> [ok |-> TRUE, docs |-> ds]
               [] l.delta.op = "push" ->
                    IF d \notin DOMAIN ds THEN fail
                    ELSE put([ds[d] EXCEPT !.contacts = @ \o l.delta.items])
               [] l.delta.op = "pull" ->
                    IF d \notin DOMAIN ds \/ ~l.fresh THEN fail
                    ELSE put([ds[d] EXCEPT
                                !.contacts = SelectSeq(@, LAMBDA c : c.id # l.delta.cid)])
               [] l.delta.op = "set" ->
                    IF d \notin DOMAIN ds \/ ~l.fresh THEN fail
                    ELSE put([ds[d] EXCEPT !.contacts[l.delta.idx] = l.delta.sub])
               [] l.delta.op = "name" ->
                    IF d \notin DOMAIN ds THEN fail
                    ELSE IF \E e \in DOMAIN ds : e # d /\ ds[e].name = l.delta.name THEN fail
                    ELSE put([ds[d] EXCEPT !.name = l.delta.name])

\* what is kept of a response: all of it for a request whose response is
\* inspected (p in DOMAIN resp)
Answer(p, rec) ==
    resp' = IF p \in DOMAIN resp THEN [resp EXCEPT ![p] = rec] ELSE resp

\* where a request is once it has answered: a response that is inspected is
\* held until Return
Answered(p) == IF p \in DOMAIN resp THEN "done" ELSE "idle"

\* res.status(...).json(...) of a request that does not reach a save; before
\* is the collection as the request found it
Respond(p, r, status) ==
    /\ pc' = [pc EXCEPT ![p] = Answered(p)]
    /\ Answer(p, [kind |-> r.kind, req |-> r, status |-> status, before |-> docs])
    /\ UNCHANGED <<docs, local>>

\* a request of p reaches await set.save() with document doc, the changes
\* delta to send and the response ok to give when the save succeeds
AwaitSave(p, r, doc, delta, ok) ==
    /\ pc' = [pc EXCEPT ![p] = "saving"]
    /\ local' = [local EXCEPT ![p] =
                   [kind |-> IF p \in DOMAIN resp THEN r.kind ELSE "none",
                    req |-> IF p \in DOMAIN resp THEN r ELSE NoResp,
                    doc |-> doc, delta |-> delta,
                    ok |-> IF p \in DOMAIN resp THEN ok ELSE NoResp,
                    before |-> IF p \in DOMAIN resp THEN docs ELSE NoResp,
                    fresh |-> TRUE]]
    /\ UNCHANGED <<docs, resp>>

\* set.contacts.some((c) => c.phone === normalized), never finding one
PhoneExists_Blind(contacts, normalized) == FALSE

\* set.contacts.some((c) => c.phone === normalized)
PhoneExists(contacts, normalized) ==
    \E i \in 1..Len(contacts) : contacts[i].phone = normalized

\* POST /contacts/:setName/add, up to await set.save()
AddContact(p, names, phones) ==
    /\ UNCHANGED notUpload
    /\ \E setName \in SetNames, name \in names, phone \in phones :
           LET r == [kind |-> "add", setName |-> setName, name |-> name, phone |-> phone]
               normalized == normalizeTZ(phone)
               set == FindOrNew(setName)
               item == [id |-> Least(FreeCids, 1)[1], name |-> name, phone |-> normalized]
           IN  /\ pc[p] = "idle"
               /\ IF Falsy(normalized)
                  THEN Respond(p, r, 400)
                  ELSE IF PhoneExists(set.contacts, normalized)
                  THEN Respond(p, r, 409)
                  ELSE /\ FreeCids # {}
                       /\ AwaitSave(p, r, [set EXCEPT !.contacts = Append(@, item)],
                                    [op |-> "push", items |-> <<item>>],
                                    [contact |-> item, count |-> Len(set.contacts) + 1])

\* set.contacts.some((c) => c._id !== sub._id && c.phone === normalized)
DupOther(contacts, i, normalized) ==
    \E j \in 1..Len(contacts) :
        contacts[j].id # contacts[i].id /\ contacts[j].phone = normalized

\* PUT /contacts/:setName/:contactId, up to await set.save()
UpdateContact(p, names, phones) ==
    /\ UNCHANGED notUpload
    /\ \E setName \in SetNames, cid \in 1..MaxCids,
          name \in names \cup {UNDEF}, phone \in phones \cup {UNDEF} :
           LET r == [kind |-> "update", setName |-> setName, cid |-> cid,
                     name |-> name, phone |-> phone]
               d == FindOne(setName)
               set == Load(d)
               i == SubdocIndex(set.contacts, cid)
               normalized == normalizeTZ(phone)
               sub == [set.contacts[i] EXCEPT
                         !.phone = IF phone = UNDEF THEN @ ELSE normalized,
                         !.name = IF name = UNDEF THEN @ ELSE name]
           IN  /\ pc[p] = "idle"
               /\ IF d = 0 THEN Respond(p, r, 404)
                  ELSE IF i = 0 THEN Respond(p, r, 404)
                  ELSE IF phone # UNDEF /\ Falsy(normalized)
                  THEN Respond(p, r, 400)
                  ELSE IF phone # UNDEF /\ DupOther(set.contacts, i, normalized)
                  THEN Respond(p, r, 409)
                  ELSE AwaitSave(p, r, [set EXCEPT !.contacts[i] = sub],
                                 IF sub = set.contacts[i] THEN NoDelta
                                 ELSE [op |-> "set", idx |-> i, sub |-> sub],
                                 [contact |-> sub, count |-> Len(set.contacts)])

\* DELETE /contacts/:setName/:contactId, up to await set.save()
DeleteContact(p) ==
    /\ UNCHANGED notUpload
    /\ \E setName \in SetNames, cid \in 1..MaxCids :
           LET r == [kind |-> "delete", setName |-> setName, cid |-> cid]
               d == FindOne(setName)
               set == Load(d)
               i == SubdocIndex(set.contacts, cid)
               rest == SelectSeq(set.contacts, LAMBDA c : c.id # cid)
           IN  /\ pc[p] = "idle"
               /\ IF d = 0 THEN Respond(p, r, 404)
                  ELSE IF i = 0 THEN Respond(p, r, 404)
                  ELSE AwaitSave(p, r, [set EXCEPT !.contacts = rest],
                                 [op |-> "pull", cid |-> cid],
                                 [count |-> Len(rest)])

\* the rows of an upload as extractFromRow sees them: a name and a phone cell
Rows == {[name |-> John, phone |-> R1a]} \cup [name : {<<>>}, phone : {R1a, R2, R00}]
Batches == SeqsUpTo(Rows, MaxRows)

\* extractFromRow's result for each row, rows without a valid phone dropped
RECURSIVE NewContacts(_)
NewContacts(rows) ==
    IF rows = <<>> THEN <<>>
    ELSE LET normalized == normalizeTZ(Head(rows).phone)
         IN  IF Falsy(normalized) THEN NewContacts(Tail(rows))
             ELSE <<[phone |-> normalized, name |-> Head(rows).name]>>
                  \o NewContacts(Tail(rows))

\* the dedupe loop of the upload, keeping every row
Dedupe_KeepAll(cs, existingPhones) == cs

\* for (const c of newContacts) if (!existingPhones.has(c.phone)) { push; add }
RECURSIVE Dedupe(_, _)
Dedupe(cs, existingPhones) ==
    IF cs = <<>> THEN <<>>
    ELSE IF Head(cs).phone \notin existingPhones
         THEN <<Head(cs)>> \o Dedupe(Tail(cs), existingPhones \cup {Head(cs).phone})
         ELSE Dedupe(Tail(cs), existingPhones)

\* the subdocuments a push creates, each with a new _id
WithIds(cs) ==
    LET ids == Least(FreeCids, Len(cs))
    IN  [i \in 1..Len(cs) |-> [id |-> ids[i], name |-> cs[i].name, phone |-> cs[i].phone]]

\* the uploaded file, unlinked only when the parse failed
AfterParse_CatchOnly(files, p, failed) == IF failed THEN files \ {p} ELSE files

\* catch (err) { try { fs.unlinkSync(filePath) } catch {} ... } finally
\* { try { fs.unlinkSync(filePath) } catch {} }: the files of the upload
\* directory once the parse of p's file is over
AfterParse(files, p, failed) == (IF failed THEN files \ {p} ELSE files) \ {p}

\* POST /upload/:setName: Multer has stored the file of the request (named
\* here by the request) in the upload directory, and the stream is started;
\* a request without a file answers 400
UploadRequest(p) ==
    /\ UNCHANGED notStore
    /\ pc[p] = "idle"
    /\ \E file \in BOOLEAN :
          IF file
          THEN /\ uploads' = uploads \cup {p}
               /\ pc' = [pc EXCEPT ![p] = "parsing"]
               /\ UNCHANGED <<docs, local, resp>>
          ELSE /\ Respond(p, [kind |-> "upload failed", file |-> FALSE], 400)
               /\ UNCHANGED uploads

\* POST /upload/:setName from the end of the parse, with the rows read or a
\* stream error, up to await set.save()
Upload(p, batches) ==
    /\ UNCHANGED notStore
    /\ pc[p] = "parsing"
    /\ \E setName \in SetNames, rows \in batches, failed \in BOOLEAN :
           LET r == [kind |-> "upload", setName |-> setName, rows |-> rows]
               newContacts == NewContacts(rows)
               set == FindOrNew(setName)
               pushed == Dedupe(newContacts, Phones(set.contacts))
               added == Len(pushed)
               items == WithIds(pushed)
           IN  /\ uploads' = AfterParse(uploads, p, failed)
               /\ IF failed
                  THEN Respond(p, [kind |-> "upload failed", file |-> TRUE], 400)
                  ELSE IF newContacts = <<>> THEN Respond(p, r, 400)
                  ELSE IF added = 0 /\ set.isNew THEN Respond(p, r, 400)
                  ELSE /\ added <= Cardinality(FreeCids)
                       /\ AwaitSave(p, r, [set EXCEPT !.contacts = @ \o items],
                                    IF added = 0 THEN NoDelta
                                    ELSE [op |-> "push", items |-> items],
                                    [added |-> added, count |-> Len(set.contacts) + added])

\* the numbers of a directory save, normalized, the invalid ones dropped
RECURSIVE Normalized(_)
Normalized(numbers) ==
    IF numbers = <<>> THEN <<>>
    ELSE LET normalized == normalizeTZ(Head(numbers))
         IN  IF Falsy(normalized) THEN Normalized(Tail(numbers))
             ELSE <<[phone |-> normalized, name |-> <<>>]>> \o Normalized(Tail(numbers))

\* POST /contacts/google/save, up to await set.save()
GoogleSave(p, lists) ==
    /\ UNCHANGED notUpload
    /\ \E setName \in SetNames, numbers \in lists, isArray \in BOOLEAN :
           LET r == [kind |-> "gsave", setName |-> setName, numbers |-> numbers,
                     isArray |-> isArray]
               set == FindOrNew(setName)
               pushed == Dedupe(Normalized(numbers), Phones(set.contacts))
               items == WithIds(pushed)
           IN  /\ pc[p] = "idle"
               /\ IF ~isArray THEN Respond(p, r, 400)
                  ELSE /\ Len(pushed) <= Cardinality(FreeCids)
                       /\ AwaitSave(p, r, [set EXCEPT !.contacts = @ \o items],
                                    IF pushed = <<>> THEN NoDelta
                                    ELSE [op |-> "push", items |-> items],
                                    [count |-> Len(set.contacts) + Len(pushed)])

\* ContactSet.findOne({ name: newName.trim() }), never finding one
TargetExists_Blind(newName) == FALSE

\* const existing = await ContactSet.findOne({ name: newName.trim() })
TargetExists(newName) == FindOne(Trim(newName)) # 0

\* PATCH /contacts/:setName/rename, up to the second findOne
RenameSet(p) ==
    /\ UNCHANGED notUpload
    /\ \E setName \in SetNames, newName \in NewNames :
           LET r == [kind |-> "rename", setName |-> setName, newName |-> newName]
           IN  /\ pc[p] = "idle"
               /\ IF Falsy(newName) \/ Trim(newName) = <<>>
                  THEN Respond(p, r, 400)
                  ELSE IF TargetExists(newName)
                  THEN Respond(p, r, 409)
                  ELSE /\ pc' = [pc EXCEPT ![p] = "renaming"]
                       /\ local' = [local EXCEPT ![p] = [kind |-> "rename", req |-> r]]
                       /\ UNCHANGED <<docs, resp>>

\* PATCH /contacts/:setName/rename, from the second findOne to await set.save()
RenameFound(p) ==
    /\ UNCHANGED notUpload
    /\ LET r == local[p].req
           d == FindOne(r.setName)
           set == Load(d)
       IN  /\ pc[p] = "renaming"
           /\ d # 0
           /\ AwaitSave(p, r, [set EXCEPT !.name = Trim(r.newName)],
                        [op |-> "name", name |-> Trim(r.newName)],
                        [name |-> Trim(r.newName)])

\* PATCH /contacts/:setName/rename: the second findOne returns null
RenameNotFound(p) ==
    /\ UNCHANGED notUpload
    /\ pc[p] = "renaming"
    /\ FindOne(local[p].req.setName) = 0
    /\ pc' = [pc EXCEPT ![p] = Answered(p)]
    /\ Answer(p, [kind |-> "rename", req |-> local[p].req, status |-> 404, before |-> docs])
    /\ local' = [local EXCEPT ![p] = NoLocal]
    /\ UNCHANGED docs

\* DELETE /contacts/:setName: ContactSet.findOneAndDelete({ name })
DeleteSet(p) ==
    /\ UNCHANGED notUpload
    /\ \E setName \in SetNames :
           LET d == FindOne(setName)
           IN  /\ pc[p] = "idle"
               /\ docs' = [e \in DOMAIN docs \ {d} |-> docs[e]]
               /\ pc' = [pc EXCEPT ![p] = Answered(p)]
               /\ Answer(p, [kind |-> "delset", req |-> [kind |-> "delset", setName |-> setName],
                             status |-> IF d = 0 THEN 404 ELSE 200, before |-> docs])
               /\ UNCHANGED local

\* await set.save() and the response after it, of every handler that saves;
\* the handler's catch answers 500 when the save rejects
Save(p) ==
    /\ UNCHANGED notUpload
    /\ LET l == local[p]
           r == SaveDoc(docs, l)
       IN  /\ pc[p] = "saving"
           /\ docs' = r.docs
           /\ pc' = [pc EXCEPT ![p] = Answered(p)]
           /\ local' = [q \in DOMAIN local |->
                          IF q = p THEN NoLocal
                          ELSE IF /\ pc[q] = "saving"
                                  /\ local[q].doc.id = l.doc.id
                                  /\ r.ok /\ Increments(l)
                               THEN [local[q] EXCEPT !.fresh = FALSE]
                               ELSE local[q]]
           /\ Answer(p, [kind |-> l.kind, req |-> l.req,
                         status |-> IF r.ok THEN 200 ELSE 500,
                         body |-> l.ok, before |-> l.before])

\* the response is sent and the handler over
Return(p) ==
    /\ UNCHANGED notUpload
    /\ pc[p] = "done"
    /\ pc' = [pc EXCEPT ![p] = "idle"]
    /\ Answer(p, NoResp)
    /\ UNCHANGED <<docs, local>>

\* the empty collection, with the requests procs can keep in flight at once,
\* those of inspected answering in full
StoreInit(procs, inspected) ==
    /\ docs = <<>>
    /\ pc = [p \in procs |-> "idle"]
    /\ local = [p \in procs |-> NoLocal]
    /\ resp = [p \in inspected |-> NoResp]
    /\ uploads = {}

-----------------------------------------------------------------------------
(* Dashboard channel: io.emit and io.on('connection') *)

\* an observer keeps the events that the latest step of the server delivered
\* to it (none: <<>>)
NoObserver == [connected |-> FALSE, inbox |-> <<>>]

Event(kind, value) == [kind |-> kind, value |-> value]

\* io.emit(kind, value), ...: every connected observer receives the events
Emit(events) ==
    [o \in DOMAIN observer |->
        [observer[o] EXCEPT !.inbox = IF observer[o].connected THEN events ELSE <<>>]]

\* the initial snapshot, without its logs event
Snapshot_NoLogs ==
    <<Event("status", connectionStatus), Event("qr", latestQR),
      Event("progress", sendingProgress)>>

\* socket.emit('status', connectionStatus); socket.emit('qr', latestQR);
\* socket.emit('progress', sendingProgress); socket.emit('logs', sendingLogs)
Snapshot ==
    <<Event("status", connectionStatus), Event("qr", latestQR),
      Event("progress", sendingProgress), Event("logs", sendingLogs)>>

\* io.on('connection', (socket) => ...): a new observer connects
ObserverConnects(o) ==
    /\ ~observer[o].connected
    /\ observer' = [Emit(<<>>) EXCEPT ![o] = [connected |-> TRUE, inbox |-> Snapshot]]
    /\ UNCHANGED notDash

\* an observer goes away; the server has no handler for it
ObserverLeaves(o) ==
    /\ observer[o].connected
    /\ observer' = [Emit(<<>>) EXCEPT ![o] = NoObserver]
    /\ UNCHANGED notDash

\* the observers to come
DashInit(observers) == observer = [o \in observers |-> NoObserver]

-----------------------------------------------------------------------------
(* Session Manager: connectWA and the connection.update handler *)

NoQR == NULL
QRs == {<<"q", "1">>, <<"q", "2">>}

\* lastDisconnect.error of a close: none, or the status code it carries
CloseErrors == {"none", "loggedOut", "connectionClosed"}

\* lastClose is the close whose reconnection has not made its socket yet,
\* named by its error
NoClose == "no close"

\* the sockets that can still emit connection.update: Baileys emits close
\* once, as a socket's last event
LiveSockets == live.connecting + live.open

\* shouldReconnect, requiring an error to be there
shouldReconnect_NeedsError(error) == error # "none" /\ error # "loggedOut"

\* const shouldReconnect = !lastDisconnect?.error ||
\*     lastDisconnect?.error?.output?.statusCode !== DisconnectReason.loggedOut
shouldReconnect(error) == error = "none" \/ error # "loggedOut"

\* the timers the handler sets for an update, the test of connection left out
Reconnects_AnyUpdate(connection, error) ==
    IF shouldReconnect(error) THEN 1 ELSE 0

\* if (connection === 'close') { ... if (shouldReconnect) setTimeout(connectWA, 5000) }:
\* the number of timers the handler sets for an update
Reconnects(connection, error) ==
    IF connection = "close" /\ shouldReconnect(error) THEN 1 ELSE 0

\* updateQR and updateStatus emit what they set: the events of one update
UpdateEvents(qr, connection) ==
    (IF qr # NoQR THEN <<Event("qr", qr), Event("status", "disconnected")>> ELSE <<>>)
    \o (IF connection = "open"
        THEN <<Event("qr", NoQR), Event("status", "connected")>> ELSE <<>>)
    \o (IF connection = "close" THEN <<Event("status", "disconnected")>> ELSE <<>>)

\* the handler without updateQR(null) on 'open'
ConnectionUpdate_KeepsQR(qr, connection, error) ==
    /\ observer' = Emit(UpdateEvents(qr, connection))
    /\ latestQR' = IF qr # NoQR THEN qr ELSE latestQR
    /\ connectionStatus' =
          IF connection = "close" THEN "disconnected"
          ELSE IF connection = "open" THEN "connected"
          ELSE IF qr # NoQR THEN "disconnected"
          ELSE connectionStatus
    /\ timers' = timers + Reconnects(connection, error)
    /\ lastClose' = IF connection = "close" THEN error ELSE lastClose

\* sock.ev.on('connection.update', (update) => ...) for an update with fields
\* qr, connection and lastDisconnect.error (absent: NoQR, UNDEF, "none")
ConnectionUpdate(qr, connection, error) ==
    /\ observer' = Emit(UpdateEvents(qr, connection))
    /\ latestQR' = IF connection = "open" THEN NoQR
                   ELSE IF qr # NoQR THEN qr
                   ELSE latestQR
    /\ connectionStatus' =
          IF connection = "close" THEN "disconnected"
          ELSE IF connection = "open" THEN "connected"
          ELSE IF qr # NoQR THEN "disconnected"
          ELSE connectionStatus
    /\ timers' = timers + Reconnects(connection, error)
    /\ lastClose' = IF connection = "close" THEN error ELSE lastClose

\* a socket that is not paired yet emits a pairing payload
SocketQR ==
    /\ live.connecting > 0
    /\ \E qr \in QRs : ConnectionUpdate(qr, UNDEF, "none")
    /\ UNCHANGED <<sock, live, starting>>
    /\ UNCHANGED notConn

\* a socket reports connection 'open'
SocketOpen ==
    /\ live.connecting > 0
    /\ ConnectionUpdate(NoQR, "open", "none")
    /\ live' = [connecting |-> live.connecting - 1, open |-> live.open + 1]
    /\ UNCHANGED <<sock, starting>>
    /\ UNCHANGED notConn

\* a socket reports connection 'close', its last event
SocketClose ==
    /\ \E phase \in {"connecting", "open"}, error \in CloseErrors :
          /\ live[phase] > 0
          /\ ConnectionUpdate(NoQR, "close", error)
          /\ live' = [live EXCEPT ![phase] = @ - 1]
    /\ UNCHANGED <<sock, starting>>
    /\ UNCHANGED notConn

\* the 5 s timer of setTimeout(connectWA, 5000) fires: connectWA runs up to
\* await useMultiFileAuthState('auth')
ReconnectTimer ==
    /\ timers > 0
    /\ timers' = timers - 1
    /\ starting' = starting + 1
    /\ UNCHANGED <<sock, live, latestQR, connectionStatus, lastClose>>
    /\ observer' = Emit(<<>>)
    /\ UNCHANGED notConn

\* connectWA after the await: sock = makeWASocket({ auth: state })
MakeSocket ==
    /\ starting > 0
    /\ starting' = starting - 1
    /\ sock' = "socket"
    /\ live' = [live EXCEPT !.connecting = @ + 1]
    /\ lastClose' = NoClose
    /\ UNCHANGED <<timers, latestQR, connectionStatus>>
    /\ observer' = Emit(<<>>)
    /\ UNCHANGED notConn

\* let sock; let latestQR = null; let connectionStatus = 'disconnected';
\* connectWA() is called as the module loads
ConnInit ==
    /\ sock = "undefined"
    /\ live = [connecting |-> 0, open |-> 0]
    /\ timers = 0
    /\ starting = 1
    /\ latestQR = NoQR
    /\ connectionStatus = "disconnected"
    /\ lastClose = NoClose

-----------------------------------------------------------------------------
(* Broadcast Runner: POST /send/:setName *)

Runs == 1..MaxRuns

Messages == {UNDEF, <<" ">>, <<"h", "i">>}

\* the phone of the i-th contact of the set that is broadcast to
SendPhone(i) == CC \o <<"7">> \o <<CHOOSE c \in Digit : c = ToString(i)>>

\* a collection with one set, A, of n contacts
SendDocs(n) ==
    <<[name |-> <<"A">>,
       contacts |-> [i \in 1..n |-> [id |-> i, name |-> <<>>, phone |-> SendPhone(i)]]]>>

NoRun ==
    [pc |-> "idle", setName |-> UNDEF, message |-> UNDEF, contacts |-> <<>>,
     idx |-> 0, attempts |-> <<>>, overlapped |-> FALSE, status |-> 0, stats |-> NULL]

InFlight(r) == run[r].pc \in {"finding", "sending", "waiting"}

\* the request ends with a response
Finish(r, status, stats) ==
    [run[r] EXCEPT !.pc = "done", !.status = status, !.stats = stats]

\* POST /send/:setName up to await ContactSet.findOne
SendRequest(r) ==
    /\ UNCHANGED notSend
    /\ run[r].pc = "idle"
    /\ observer' = Emit(<<>>)
    /\ \E setName \in SetNames, message \in Messages :
          LET me == [NoRun EXCEPT !.pc = "finding", !.setName = setName,
                                  !.message = message,
                                  !.overlapped = \E q \in DOMAIN run : InFlight(q)]
          IN  IF Falsy(message) \/ Trim(message) = <<>>
              THEN /\ run' = [run EXCEPT ![r] = [me EXCEPT !.pc = "done", !.status = 400,
                                                  !.overlapped = FALSE]]
                   /\ UNCHANGED <<docs, connectionStatus, sendingProgress, sendingLogs, history>>
              ELSE /\ run' = [q \in DOMAIN run |->
                                IF q = r THEN me
                                ELSE IF InFlight(q) THEN [run[q] EXCEPT !.overlapped = TRUE]
                                ELSE run[q]]
                   /\ UNCHANGED <<docs, connectionStatus, sendingProgress, sendingLogs, history>>

\* an attempt for the contact that the stored set holds at place i now
Attempt_Live(me, i) ==
    LET d == FindOne(me.setName)
        number == IF d # 0 /\ i <= Len(docs[d].contacts)
                  THEN docs[d].contacts[i].phone ELSE UNDEF
    IN  [me EXCEPT !.pc = "sending", !.idx = i,
                   !.attempts = Append(@, [number |-> number, result |-> "pending"])]

\* await sock.sendMessage(jid, { text: message }) is called for contact i of
\* the snapshot: an attempt
Attempt(me, i) ==
    [me EXCEPT !.pc = "sending", !.idx = i,
               !.attempts = Append(@, [number |-> me.contacts[i], result |-> "pending"])]

\* a record with the counts of the run's own attempts
Unshift_OwnCounts(h, r, me, progress) ==
    <<[date |-> r, setName |-> me.setName, message |-> me.message,
       total |-> Len(me.contacts),
       sent |-> Cardinality({i \in DOMAIN me.attempts : me.attempts[i].result = "sent"}),
       failed |-> Cardinality({i \in DOMAIN me.attempts : me.attempts[i].result = "failed"})]>>
    \o h

\* the record put at the end of the log
Unshift_Push(h, r, me, progress) ==
    h \o <<[date |-> r, setName |-> me.setName, message |-> me.message,
            total |-> progress.total, sent |-> progress.sent, failed |-> progress.failed]>>

\* history.unshift({ date, setName, message, total, sent, failed }); the date
\* stands for the run it was written by
Unshift(h, r, me, progress) ==
    <<[date |-> r, setName |-> me.setName, message |-> me.message,
       total |-> progress.total, sent |-> progress.sent, failed |-> progress.failed]>> \o h

\* the connection test, the status left out
NotConnected_SockOnly(s, status) == s = "undefined"

\* if (!sock || connectionStatus !== 'connected')
NotConnected(s, status) == s = "undefined" \/ status # "connected"

\* POST /send/:setName from the findOne to the first sendMessage (or, for an
\* empty set, to the response)
SendFound(r) ==
    LET me == run[r]
        d == FindOne(me.setName)
        contacts == [i \in 1..Len(docs[d].contacts) |-> docs[d].contacts[i].phone]
        reset == [total |-> Len(contacts), sent |-> 0, failed |-> 0]
        mine == [me EXCEPT !.contacts = contacts]
    IN  /\ UNCHANGED notSend
        /\ me.pc = "finding"
        /\ UNCHANGED <<docs, connectionStatus>>
        /\ IF d = 0
           THEN /\ run' = [run EXCEPT ![r] = Finish(r, 404, NULL)]
                /\ observer' = Emit(<<>>)
                /\ UNCHANGED <<sendingProgress, sendingLogs, history>>
           ELSE IF NotConnected(sock, connectionStatus)
           THEN /\ run' = [run EXCEPT ![r] = Finish(r, 400, NULL)]
                /\ observer' = Emit(<<>>)
                /\ UNCHANGED <<sendingProgress, sendingLogs, history>>
           ELSE /\ sendingProgress' = reset
                /\ sendingLogs' = <<>>
                /\ observer' = Emit(<<Event("progress", reset)>>)
                /\ IF contacts = <<>>
                   THEN /\ history' = Unshift(history, r, mine, reset)
                        /\ run' = [run EXCEPT ![r] =
                                     [mine EXCEPT !.pc = "done", !.status = 200, !.stats = reset]]
                   ELSE /\ run' = [run EXCEPT ![r] = Attempt(mine, 1)]
                        /\ UNCHANGED history

\* sendingProgress.sent++ / sendingProgress.failed++, counting every attempt as sent
Count_AllSent(progress, ok) == [progress EXCEPT !.sent = @ + 1]

\* sendingProgress.sent++ in the try, sendingProgress.failed++ in the catch
Count(progress, ok) ==
    IF ok THEN [progress EXCEPT !.sent = @ + 1] ELSE [progress EXCEPT !.failed = @ + 1]

\* sock.sendMessage settles: it can resolve only on an open socket; the
\* handler counts, logs, emits and starts the pause
SendSettles(r) ==
    LET me == run[r]
    IN  /\ UNCHANGED notSend
        /\ me.pc = "sending"
        /\ \E ok \in BOOLEAN :
              /\ ok => live.open > 0
              /\ sendingProgress' = Count(sendingProgress, ok)
              /\ sendingLogs' = Append(sendingLogs, [ok |-> ok, number |-> me.contacts[me.idx]])
              /\ observer' = Emit(<<Event("progress", sendingProgress'),
                                    Event("logs", sendingLogs')>>)
              /\ run' = [run EXCEPT ![r] =
                           [me EXCEPT !.pc = "waiting",
                                      !.attempts[me.idx].result =
                                          IF ok THEN "sent" ELSE "failed"]]
        /\ UNCHANGED <<docs, connectionStatus, history>>

\* the pause of 1000 + Math.random() * 2000 ms is over: the next contact's
\* sendMessage, or after the last one the history record and the response
PauseOver(r) ==
    LET me == run[r]
    IN  /\ UNCHANGED notSend
        /\ me.pc = "waiting"
        /\ observer' = Emit(<<>>)
        /\ UNCHANGED <<docs, connectionStatus, sendingProgress, sendingLogs>>
        /\ IF me.idx < Len(me.contacts)
           THEN /\ run' = [run EXCEPT ![r] = Attempt(me, me.idx + 1)]
                /\ UNCHANGED history
           ELSE /\ history' = Unshift(history, r, me, sendingProgress)
                /\ run' = [run EXCEPT ![r] =
                             [me EXCEPT !.pc = "done", !.status = 200,
                                        !.stats = sendingProgress]]

\* let sendingProgress = { total: 0, sent: 0, failed: 0 }; let sendingLogs = [];
\* no history.json; runs broadcast requests to come
SendInit(runs) ==
    /\ sendingProgress = [total |-> 0, sent |-> 0, failed |-> 0]
    /\ sendingLogs = <<>>
    /\ history = <<>>
    /\ run = [r \in runs |-> NoRun]

-----------------------------------------------------------------------------
(* Directory access: GET /auth/google/callback and GET /contacts/google *)

\* the authorization codes of two consents
Codes == {"1", "2"}

\* oauth2Client.getToken(code): the tokens of a consent
GetToken(code) == [access_token |-> <<"a", code>>, refresh_token |-> <<"r", code>>]

\* oauth2Client.refreshAccessToken(): a new access token for the refresh
\* token the client holds
RefreshAccessToken(cred) ==
    [access_token |-> <<"a", cred.refresh_token[2], "'">>,
     refresh_token |-> cred.refresh_token]

NoToken == [pc |-> "idle", tokens |-> NULL]

\* GET /auth/google/callback up to await oauth2Client.getToken(code)
AuthCallback(p) ==
    /\ UNCHANGED notToken
    /\ token[p].pc = "idle"
    /\ \E code \in Codes :
          token' = [token EXCEPT ![p] = [pc |-> "getToken", tokens |-> GetToken(code)]]
    /\ UNCHANGED <<googleTokens, credentials>>

\* getToken answers: oauth2Client.setCredentials(tokens), then
\* GoogleToken.deleteMany({}) is sent; or it throws, and the answer is 500
TokenGranted(p) ==
    /\ UNCHANGED notToken
    /\ token[p].pc = "getToken"
    /\ \E granted \in BOOLEAN :
          IF granted
          THEN /\ credentials' = token[p].tokens
               /\ token' = [token EXCEPT ![p].pc = "deleteMany"]
          ELSE /\ token' = [token EXCEPT ![p] = NoToken]
               /\ UNCHANGED credentials
    /\ UNCHANGED googleTokens

\* the database runs GoogleToken.deleteMany({}); GoogleToken.create(tokens) is sent
DeleteMany(p) ==
    /\ UNCHANGED notToken
    /\ token[p].pc = "deleteMany"
    /\ googleTokens' = <<>>
    /\ token' = [token EXCEPT ![p].pc = "create"]
    /\ UNCHANGED credentials

\* the database runs GoogleToken.create(tokens); the request is redirected
Create(p) ==
    /\ UNCHANGED notToken
    /\ token[p].pc = "create"
    /\ googleTokens' = Append(googleTokens, token[p].tokens)
    /\ token' = [token EXCEPT ![p] = NoToken]
    /\ UNCHANGED credentials

\* GET /contacts/google up to await GoogleToken.findOne()
GoogleContacts(p) ==
    /\ UNCHANGED notToken
    /\ token[p].pc = "idle"
    /\ token' = [token EXCEPT ![p].pc = "findOne"]
    /\ UNCHANGED <<googleTokens, credentials>>

\* findOne answers: 401 without a token; else setCredentials(tokenDoc), and if
\* the token is expiring refreshAccessToken() is called, else the directory is read
FindOneToken(p) ==
    /\ UNCHANGED notToken
    /\ token[p].pc = "findOne"
    /\ IF googleTokens = <<>>
       THEN /\ token' = [token EXCEPT ![p] = NoToken]
            /\ UNCHANGED credentials
       ELSE /\ credentials' = googleTokens[1]
            /\ \E isTokenExpiring \in BOOLEAN :
                  token' = [token EXCEPT ![p].pc =
                              IF isTokenExpiring THEN "refresh" ELSE "list"]
    /\ UNCHANGED googleTokens

\* refreshAccessToken answers for the credentials the client holds now:
\* setCredentials(credentials), then GoogleToken.updateOne({}, credentials) is sent
TokenRefreshed(p) ==
    /\ UNCHANGED notToken
    /\ token[p].pc = "refresh"
    /\ credentials' = RefreshAccessToken(credentials)
    /\ token' = [token EXCEPT ![p] = [pc |-> "updateOne", tokens |-> credentials']]
    /\ UNCHANGED googleTokens

\* the database runs GoogleToken.updateOne({}, credentials): the first token, if
\* there is one, takes the fields; then the directory is read
UpdateOne(p) ==
    /\ UNCHANGED notToken
    /\ token[p].pc = "updateOne"
    /\ googleTokens' = IF googleTokens = <<>> THEN <<>>
                       ELSE [googleTokens EXCEPT ![1] = token[p].tokens]
    /\ token' = [token EXCEPT ![p] = [pc |-> "list", tokens |-> NULL]]
    /\ UNCHANGED credentials

\* service.people.connections.list answers or throws; the response is sent
ListConnections(p) ==
    /\ UNCHANGED notToken
    /\ token[p].pc = "list"
    /\ token' = [token EXCEPT ![p] = NoToken]
    /\ UNCHANGED <<googleTokens, credentials>>

\* an empty google_tokens collection, a client without credentials
TokenInit(procs) ==
    /\ googleTokens = <<>>
    /\ credentials = NULL
    /\ token = [p \in procs |-> NoToken]

\* one request at a time
StoreNext ==
    \E p \in {1} :
        \/ AddContact(p, {<<>>}, RawPhones)
        \/ UpdateContact(p, {}, {R1b, R2, R00})
        \/ DeleteContact(p)
        \/ UploadRequest(p)
        \/ Upload(p, Batches)
        \/ GoogleSave(p, SeqsUpTo({R1b, R2}, MaxRows))
        \/ RenameSet(p)
        \/ RenameFound(p)
        \/ RenameNotFound(p)
        \/ DeleteSet(p)
        \/ Save(p)
        \/ Return(p)

NormIdle == raw = NULL /\ once = NULL /\ twice = NULL /\ normStep = 0

SeqInit == StoreInit({1}, {1}) /\ NormIdle /\ ConnInit /\ SendInit({}) /\ TokenInit({}) /\ DashInit({})

SpecStore == SeqInit /\ [][StoreNext]_vars

\* two requests in flight
RacePhones == {R1a, R2}
RaceNext ==
    \E p \in {1, 2} :
        \/ AddContact(p, {<<>>}, RacePhones)
        \/ UpdateContact(p, {}, {R2})
        \/ DeleteContact(p)
        \/ UploadRequest(p)
        \/ Upload(p, {<<[name |-> <<>>, phone |-> R1a]>>})
        \/ GoogleSave(p, {<<R2>>})
        \/ RenameSet(p)
        \/ RenameFound(p)
        \/ RenameNotFound(p)
        \/ DeleteSet(p)
        \/ Save(p)

RaceInit == StoreInit({1, 2}, {}) /\ NormIdle /\ ConnInit /\ SendInit({}) /\ TokenInit({}) /\ DashInit({})

\* normalizeTZ applied to each input, and again to its result
NormSpecInit == NormInit /\ StoreInit({}, {}) /\ ConnInit /\ SendInit({}) /\ TokenInit({}) /\ DashInit({})

NormNext == Normalize \/ NormalizeAgain

SpecNorm == NormSpecInit /\ [][NormNext]_vars

\* the session and the broadcasts to a set of up to MaxSend contacts
SendSpecInit ==
    /\ NormIdle
    /\ \E n \in 0..MaxSend : docs = SendDocs(n)
    /\ pc = <<>> /\ local = <<>> /\ resp = <<>> /\ uploads = {}
    /\ ConnInit
    /\ SendInit(Runs)
    /\ TokenInit({})
    /\ DashInit({})

ConnNext ==
    \/ SocketQR
    \/ SocketOpen
    \/ SocketClose
    \/ ReconnectTimer
    \/ MakeSocket

SendNext ==
    \/ ConnNext
    \/ \E r \in Runs :
          \/ SendRequest(r)
          \/ SendFound(r)
          \/ SendSettles(r)
          \/ PauseOver(r)

SpecSend == SendSpecInit /\ [][SendNext]_vars

\* the session with one broadcast to one contact; the timer fires and
\* useMultiFileAuthState returns
ConnSpecInit ==
    /\ NormIdle
    /\ docs = SendDocs(1)
    /\ pc = <<>> /\ local = <<>> /\ resp = <<>> /\ uploads = {}
    /\ ConnInit
    /\ SendInit({1})
    /\ TokenInit({})
    /\ DashInit({})

ConnSendNext ==
    \/ ConnNext
    \/ \E r \in {1} :
          \/ SendRequest(r)
          \/ SendFound(r)
          \/ SendSettles(r)
          \/ PauseOver(r)

\* two requests to the directory routes at a time
TokenSpecInit == StoreInit({}, {}) /\ NormIdle /\ ConnInit /\ SendInit({}) /\ TokenInit({1, 2}) /\ DashInit({})

TokenNext ==
    \E p \in {1, 2} :
        \/ AuthCallback(p)
        \/ TokenGranted(p)
        \/ DeleteMany(p)
        \/ Create(p)
        \/ GoogleContacts(p)
        \/ FindOneToken(p)
        \/ TokenRefreshed(p)
        \/ UpdateOne(p)
        \/ ListConnections(p)

SpecToken == TokenSpecInit /\ [][TokenNext]_vars

\* two uploads at a time, both answers inspected
UploadSpecInit ==
    StoreInit({1, 2}, {1, 2}) /\ NormIdle /\ ConnInit /\ SendInit({}) /\ TokenInit({})
    /\ DashInit({})

UploadNext ==
    \E p \in {1, 2} :
        \/ UploadRequest(p)
        \/ Upload(p, {<<>>, <<[name |-> <<>>, phone |-> R1a]>>, <<[name |-> <<>>, phone |-> R2]>>})
        \/ Save(p)
        \/ Return(p)

SpecUpload == UploadSpecInit /\ [][UploadNext]_vars

\* one broadcast to a set that a contact request changes meanwhile
SnapSpecInit ==
    /\ NormIdle
    /\ \E n \in 1..MaxCids : docs = SendDocs(n)
    /\ pc = [p \in {1} |-> "idle"] /\ local = [p \in {1} |-> NoLocal]
    /\ resp = <<>> /\ uploads = {}
    /\ ConnInit
    /\ SendInit({1})
    /\ TokenInit({})
    /\ DashInit({})

SnapNext ==
    \/ ConnNext
    \/ \E r \in {1} :
          \/ SendRequest(r)
          \/ SendFound(r)
          \/ SendSettles(r)
          \/ PauseOver(r)
    \/ \E p \in {1} :
          \/ AddContact(p, {<<>>}, {R2})
          \/ UpdateContact(p, {}, {R2})
          \/ DeleteContact(p)
          \/ DeleteSet(p)
          \/ Save(p)

SpecSnap == SnapSpecInit /\ [][SnapNext]_vars

\* the session, one broadcast and the observers of the dashboard channel
DashSpecInit ==
    /\ NormIdle
    /\ \E n \in 0..MaxSend : docs = SendDocs(n)
    /\ pc = <<>> /\ local = <<>> /\ resp = <<>> /\ uploads = {}
    /\ ConnInit
    /\ SendInit({1})
    /\ TokenInit({})
    /\ DashInit({1, 2})

DashNext ==
    \/ ConnNext
    \/ \E r \in {1} :
          \/ SendRequest(r)
          \/ SendFound(r)
          \/ SendSettles(r)
          \/ PauseOver(r)
    \/ \E o \in {1, 2} :
          \/ ObserverConnects(o)
          \/ ObserverLeaves(o)

SpecDash == DashSpecInit /\ [][DashNext]_vars

SpecConn ==
    /\ ConnSpecInit
    /\ [][ConnSendNext]_vars
    /\ WF_vars(ReconnectTimer)
    /\ WF_vars(MakeSocket)

SpecRace == RaceInit /\ [][RaceNext]_vars

-----------------------------------------------------------------------------
(* Contact store: properties *)

\* the contacts of the set called name in collection ds (no such set: none)
ContactsOf(ds, name) ==
    IF \E d \in DOMAIN ds : ds[d].name = name
    THEN ds[CHOOSE d \in DOMAIN ds : ds[d].name = name].contacts
    ELSE <<>>

\* C1: no two contacts of the same set have the same phone, in every state
\* that overlapping add, update, delete, upload and directory-save requests
\* reach. Overlapping requests break it.
C1_UniquePhones ==
    \A d \in DOMAIN docs :
        \A i, j \in 1..Len(docs[d].contacts) :
            i # j => docs[d].contacts[i].phone # docs[d].contacts[j].phone

\* the attempts of run r that ended with the given result
Own(r, result) ==
    Cardinality({i \in DOMAIN run[r].attempts : run[r].attempts[i].result = result})

\* the history records written by run r
RecordsOf(r) == {i \in DOMAIN history : history[i].date = r}

\* C3: a broadcast over N contacts that completed with no other broadcast
\* overlapping returned total = N, sent = the number of its own successful
\* attempts, failed = the number of its own failed attempts, sent + failed =
\* total, and the one history record it wrote carries the same three counters
C3_OwnCounters ==
    \A r \in DOMAIN run :
        (run[r].pc = "done" /\ run[r].status = 200 /\ ~run[r].overlapped) =>
            /\ run[r].stats = [total |-> Len(run[r].contacts),
                               sent |-> Own(r, "sent"),
                               failed |-> Own(r, "failed")]
            /\ run[r].stats.sent + run[r].stats.failed = run[r].stats.total
            /\ Cardinality(RecordsOf(r)) = 1
            /\ \A i \in RecordsOf(r) :
                  /\ history[i].total = run[r].stats.total
                  /\ history[i].sent = run[r].stats.sent
                  /\ history[i].failed = run[r].stats.failed

\* a broadcast over 3 contacts, alone, whose 2nd send failed, has answered
C3_Witness ==
    \E r \in DOMAIN run :
        /\ run[r].pc = "done" /\ run[r].status = 200 /\ ~run[r].overlapped
        /\ Len(run[r].attempts) = 3
        /\ run[r].attempts[1].result = "sent"
        /\ run[r].attempts[2].result = "failed"
        /\ run[r].attempts[3].result = "sent"
        /\ run[r].stats = [total |-> 3, sent |-> 2, failed |-> 1]

\* C4: every step in which a broadcast calls sock.sendMessage (an attempt is
\* added to a run) is taken while the connection status is 'connected'
C4_AttemptsOnlyConnected ==
    [][\A r \in DOMAIN run :
          Len(run'[r].attempts) > Len(run[r].attempts) => connectionStatus = "connected"]_vars

\* C5: at most one socket whose events can change the session state exists,
\* and at most one reconnection (a set timer, or a connectWA call that has not
\* made its socket yet) is pending
C5_OneConnection ==
    /\ LiveSockets <= 1
    /\ timers + starting <= 1

\* a socket has closed and its one reconnection is pending
C5_Witness ==
    /\ lastClose = "connectionClosed"
    /\ latestQR = NoQR
    /\ timers = 1
    /\ LiveSockets = 0

\* C6: a close that is not an explicit logout, its error absent or not, sets
\* one reconnection timer, and connectWA eventually runs; a close that is an
\* explicit logout sets none, and none is ever set afterwards
C6_Reconnect ==
    /\ [][(lastClose = NoClose /\ lastClose' # NoClose) =>
             timers' = timers + (IF lastClose' = "loggedOut" THEN 0 ELSE 1)]_vars
    /\ \A e \in CloseErrors \ {"loggedOut"} :
          (lastClose = e) ~> (starting > 0)
    /\ [](lastClose = "loggedOut" => [](timers = 0 /\ starting = 0))

\* connectWA runs again after a close that carried no error
C6_Witness ==
    /\ lastClose = "none"
    /\ timers = 0
    /\ starting = 1

\* C7: at most one token is stored in google_tokens, in every state
C7_OneToken == Len(googleTokens) <= 1

\* the kinds of a sequence of events, in order
Kinds(events) == [i \in DOMAIN events |-> events[i].kind]

\* C11: the step in which an observer connects delivers to it exactly one
\* status, one qr, one progress and one logs event, each with the value
\* current at that moment, and nothing to the observers already connected
C11_InitialSnapshot ==
    [][\A o \in DOMAIN observer :
          (~observer[o].connected /\ observer'[o].connected) =>
              /\ Kinds(observer'[o].inbox) = <<"status", "qr", "progress", "logs">>
              /\ observer'[o].inbox[1].value = connectionStatus
              /\ observer'[o].inbox[2].value = latestQR
              /\ observer'[o].inbox[3].value = sendingProgress
              /\ observer'[o].inbox[4].value = sendingLogs
              /\ UNCHANGED <<connectionStatus, latestQR, sendingProgress, sendingLogs>>
              /\ \A q \in DOMAIN observer \ {o} : observer'[q].inbox = <<>>]_vars

\* an observer has connected during a broadcast, while the session is
\* connected and a send has been logged
C11_Witness ==
    \E o \in DOMAIN observer :
        /\ Len(observer[o].inbox) = 4
        /\ observer[o].inbox[1] = Event("status", "connected")
        /\ observer[o].inbox[3].kind = "progress"
        /\ observer[o].inbox[3].value.sent = 1
        /\ observer[o].inbox[4].kind = "logs"
        /\ Len(observer[o].inbox[4].value) = 1

\* C12: the temporary file of an upload exists only while the request is
\* parsing it: it is gone in every later state of the request, whatever the
\* request then answers (parse error, no valid row, saved, database failure)
C12_TempFileRemoved ==
    /\ \A p \in uploads : pc[p] = "parsing"
    /\ \A p \in DOMAIN resp :
          resp[p].kind \in {"upload", "upload failed"} => p \notin uploads

\* an upload whose save the database rejected has answered 500, and no
\* temporary file is left
C12_Witness ==
    \E p \in DOMAIN resp :
        /\ resp[p].kind = "upload"
        /\ resp[p].status = 500
        /\ uploads = {}

\* the rule of the specification, read off its text: the digits of the
\* input; invalid when there are none; a leading 00 dropped; then a leading 0
\* replaced by 255; then 255 put in front of 9 digits that do not start with it
RuleOf(input) ==
    LET text == IF input \in {NULL, UNDEF} THEN <<>> ELSE input
        digits == SelectSeq(text, LAMBDA c : c \in {"0", "1", "2", "3", "4", "5", "6", "7", "8", "9"})
        a == IF Len(digits) >= 2 /\ digits[1] = "0" /\ digits[2] = "0"
             THEN SubSeq(digits, 3, Len(digits)) ELSE digits
        b == IF Len(a) >= 1 /\ a[1] = "0"
             THEN <<"2", "5", "5">> \o SubSeq(a, 2, Len(a)) ELSE a
        c == IF Len(b) = 9 /\ SubSeq(b, 1, 3) # <<"2", "5", "5">>
             THEN <<"2", "5", "5">> \o b ELSE b
    IN  IF digits = <<>> THEN NULL ELSE c

\* C13: normalizeTZ gives what the rule gives, for every input, and the four
\* examples: '0712345678', '00255712345678' and '712345678' give
\* '255712345678', and '' gives invalid
C13_ComputesRule ==
    /\ normStep >= 1 => once = RuleOf(raw)
    /\ normalizeTZ(<<"0", "7", "1", "2", "3", "4", "5", "6", "7", "8">>) = P1
    /\ normalizeTZ(<<"0", "0", "2", "5", "5", "7", "1", "2", "3", "4", "5", "6", "7", "8">>) = P1
    /\ normalizeTZ(<<"7", "1", "2", "3", "4", "5", "6", "7", "8">>) = P1
    /\ normalizeTZ(<<>>) = NULL

\* '0-712345678' has been normalized to '255712345678'
C13_Witness ==
    /\ normStep = 1
    /\ raw = <<"0", "-", "7", "1", "2", "3", "4", "5", "6", "7", "8">>
    /\ once = P1

\* the phones of a set as stored, in stored order
StoredPhones(ds, name) ==
    [i \in 1..Len(ContactsOf(ds, name)) |-> ContactsOf(ds, name)[i].phone]

\* the phones run r has called sendMessage for, in the order of the calls
Attempted(r) == [i \in 1..Len(run[r].attempts) |-> run[r].attempts[i].number]

\* C14: an accepted broadcast takes the set's contact list as stored at its
\* one read, and keeps it; at every moment its attempts are the first idx
\* contacts of that list, each once and in order, whatever the earlier
\* attempts gave and whatever happened to the stored set since; when it
\* answers, they are the whole list
C14_AttemptsAreSnapshot ==
    /\ [][\A r \in DOMAIN run :
            /\ (run[r].pc = "finding" /\ run'[r].pc = "sending") =>
                   run'[r].contacts = StoredPhones(docs, run[r].setName)
            /\ (run[r].pc = "finding" /\ run'[r].pc = "done" /\ run'[r].status = 200) =>
                   run'[r].contacts = StoredPhones(docs, run[r].setName)
            /\ run[r].pc \in {"sending", "waiting"} =>
                   run'[r].contacts = run[r].contacts]_vars
    /\ [](\A r \in DOMAIN run :
            /\ run[r].pc \in {"sending", "waiting"} =>
                  /\ run[r].idx \in 1..Len(run[r].contacts)
                  /\ Attempted(r) = SubSeq(run[r].contacts, 1, run[r].idx)
            /\ (run[r].pc = "done" /\ run[r].status = 200) =>
                  /\ Attempted(r) = run[r].contacts
                  /\ \A i \in 1..Len(run[r].attempts) :
                        run[r].attempts[i].result \in {"sent", "failed"})

\* the last of two attempts has settled, after the first one failed, and the
\* stored set is no longer the list the run read
C14_Witness ==
    \E r \in DOMAIN run :
        /\ run[r].pc = "waiting"
        /\ Len(run[r].contacts) = 2
        /\ run[r].idx = 2
        /\ run[r].attempts[1].result = "failed"
        /\ StoredPhones(docs, run[r].setName) # run[r].contacts

\* run r has been accepted in this step: its reset is done
Accepted(r) ==
    /\ run[r].pc = "finding"
    /\ run'[r].pc = "sending" \/ (run'[r].pc = "done" /\ run'[r].status = 200)

\* the counters of a record or of a response
Counters(x) == [total |-> x.total, sent |-> x.sent, failed |-> x.failed]

\* C15: all runs write one progress object and one log buffer. A broadcast
\* that is accepted while another one is running replaces both, so that the
\* counts of the run in progress are gone; every settled send of any run is
\* counted in the object that is current; and a run that completes returns
\* and records whatever that object holds then
C15_SharedCounters ==
    [][\A r \in DOMAIN run :
          /\ (Accepted(r) /\ \E q \in DOMAIN run \ {r} : InFlight(q)) =>
                /\ sendingProgress'.total = Len(run'[r].contacts)
                /\ sendingProgress'.sent = 0 /\ sendingProgress'.failed = 0
                /\ sendingLogs' = <<>>
          /\ (run[r].pc = "sending" /\ run'[r].pc = "waiting") =>
                /\ sendingProgress'.total = sendingProgress.total
                /\ sendingProgress'.sent + sendingProgress'.failed
                      = sendingProgress.sent + sendingProgress.failed + 1
                /\ Len(sendingLogs') = Len(sendingLogs) + 1
          /\ (run[r].pc = "waiting" /\ run'[r].pc = "done") =>
                /\ run'[r].stats = sendingProgress
                /\ Counters(history'[1]) = Counters(sendingProgress)
                /\ history'[1].date = r]_vars

\* a run of 3 contacts that another broadcast overlapped has answered, and
\* the counters it returned and recorded are not those of its own attempts
C15_Witness ==
    \E r \in DOMAIN run :
        /\ run[r].pc = "done" /\ run[r].status = 200 /\ run[r].overlapped
        /\ Len(run[r].attempts) = 3
        /\ run[r].stats # [total |-> 3, sent |-> Own(r, "sent"), failed |-> Own(r, "failed")]
        /\ run[r].stats.sent + run[r].stats.failed # 3
        /\ \E i \in RecordsOf(r) : Counters(history[i]) = run[r].stats

\* the events delivered to observer o in this step hold one of the given kind
\* and value
Received(o, kind, value) ==
    \E i \in DOMAIN observer'[o].inbox :
        observer'[o].inbox[i].kind = kind /\ observer'[o].inbox[i].value = value

\* C16: the step that accepts a broadcast of N contacts sets the counters to
\* {total: N, sent: 0, failed: 0}, empties the log buffer, and delivers to
\* every connected observer both the reset counters and the emptied log, no
\* attempt having settled yet, also when N = 0
C16_ResetPublished ==
    [][\A r \in DOMAIN run : Accepted(r) =>
          /\ sendingProgress' = [total |-> Len(run'[r].contacts), sent |-> 0, failed |-> 0]
          /\ sendingLogs' = <<>>
          /\ \A i \in DOMAIN run'[r].attempts : run'[r].attempts[i].result = "pending"
          /\ \A o \in DOMAIN observer : observer[o].connected =>
                /\ Received(o, "progress", sendingProgress')
                /\ Received(o, "logs", <<>>)]_vars

\* C17: the history log changes only by one record being put in front of
\* it, the records it held keeping their contents and order; that happens in
\* exactly the steps in which a broadcast completes, with the record of that
\* broadcast
C17_PrependOnly ==
    [][/\ history' # history =>
            /\ Len(history') = Len(history) + 1
            /\ Tail(history') = history
            /\ \E r \in DOMAIN run :
                  /\ run[r].pc # "done" /\ run'[r].pc = "done" /\ run'[r].status = 200
                  /\ history'[1].date = r
       /\ \A r \in DOMAIN run :
            (run[r].pc # "done" /\ run'[r].pc = "done" /\ run'[r].status = 200) =>
                /\ history' = <<history'[1]>> \o history
                /\ history'[1].date = r
                /\ history'[1].setName = run'[r].setName
                /\ history'[1].message = run'[r].message]_vars

\* two broadcasts have completed, the second's record in front of the first's
C17_Witness ==
    /\ Len(history) = 2
    /\ history[1].date = 2
    /\ history[2].date = 1
    /\ history[2].total = 3

\* the message of a request is missing or blank
Blank(message) == message = UNDEF \/ Trim(message) = <<>>

\* C18: a broadcast request with an empty message answers 400, one for a set
\* that does not exist 404, one that finds the session not connected 400;
\* the step that rejects it adds no attempt, delivers nothing to any
\* observer, and leaves the counters, the log buffer and the history alone
C18_RejectedChangesNothing ==
    [][\A r \in DOMAIN run :
          LET rejected ==
                /\ run'[r].pc = "done"
                /\ run'[r].attempts = <<>>
                /\ UNCHANGED <<sendingProgress, sendingLogs, history>>
                /\ \A o \in DOMAIN observer : observer'[o].inbox = <<>>
          IN  /\ (run[r].pc = "idle" /\ run'[r].pc # "idle" /\ Blank(run'[r].message)) =>
                    rejected /\ run'[r].status = 400
              /\ (run[r].pc = "finding" /\ run'[r].pc # "finding"
                    /\ \A d \in DOMAIN docs : docs[d].name # run[r].setName) =>
                    rejected /\ run'[r].status = 404
              /\ (run[r].pc = "finding" /\ run'[r].pc # "finding"
                    /\ (\E d \in DOMAIN docs : docs[d].name = run[r].setName)
                    /\ connectionStatus # "connected") =>
                    rejected /\ run'[r].status = 400]_vars

\* a request with a message has been rejected with 400, the session not
\* being connected, while an observer is connected
C18_Witness ==
    \E r \in DOMAIN run :
        /\ run[r].pc = "done" /\ run[r].status = 400
        /\ ~Blank(run[r].message)
        /\ \E o \in DOMAIN observer : observer[o].connected
        /\ sock = "socket"

\* C19: whenever the connection status is 'connected', latestQR is null
C19_NoQRWhenConnected == connectionStatus = "connected" => latestQR = NoQR

\* the handler of 'open' has run: the session is connected, and an observer
\* has received qr null and then the status
C19_Witness ==
    /\ connectionStatus = "connected"
    /\ latestQR = NoQR
    /\ \E o \in DOMAIN observer :
          /\ Len(observer[o].inbox) = 2
          /\ observer[o].inbox[1] = Event("qr", NoQR)

\* C8: an add whose phone normalizes to the phone of a contact already in the
\* set answers 409 and leaves the collection as it found it.
C8_AddDuplicateConflict ==
    \A p \in DOMAIN resp :
        LET a == resp[p]
        IN  (/\ a.kind = "add"
             /\ normalizeTZ(a.req.phone) \in Phones(ContactsOf(a.before, a.req.setName)))
            => (a.status = 409 /\ docs = a.before)

\* C8 happens: a number written otherwise than the stored one is refused
C8_Witness ==
    \E p \in DOMAIN resp :
        /\ resp[p].kind = "add"
        /\ resp[p].status = 409
        /\ resp[p].req.phone = R1b
        /\ P1 \in Phones(ContactsOf(docs, resp[p].req.setName))

\* C9: a rename to a name that a set already has answers 409 and leaves the
\* collection as it found it: every set keeps its name and its contacts, none
\* is created or removed.
C9_RenameConflict ==
    \A p \in DOMAIN resp :
        LET a == resp[p]
        IN  (/\ a.kind = "rename"
             /\ ~Falsy(a.req.newName)
             /\ \E d \in DOMAIN a.before : a.before[d].name = Trim(a.req.newName))
            => (a.status = 409 /\ docs = a.before)

\* C9 happens: two sets exist and one is renamed to the other's name
C9_Witness ==
    \E p \in DOMAIN resp :
        /\ resp[p].kind = "rename"
        /\ resp[p].status = 409
        /\ resp[p].req.setName = <<"A">>
        /\ resp[p].req.newName = <<" ", "B">>
        /\ \E d, e \in DOMAIN docs :
              /\ d # e
              /\ docs[d].name = <<"A">> /\ docs[e].name = <<"B">>
              /\ docs[d].contacts # <<>>

\* the valid normalized phones of a batch
ValidPhones(rows) ==
    {normalizeTZ(rows[i].phone) : i \in 1..Len(rows)} \ {NULL, <<>>}

\* C10: an upload adds exactly one contact for each distinct valid normalized
\* phone of the batch that the set does not hold, keeps the contacts the set
\* held, and answers added = the number of contacts added and count = the
\* size of the set after it.
C10_IngestDedupes ==
    \A p \in DOMAIN resp :
        LET a == resp[p]
            held == ContactsOf(a.before, a.req.setName)
            now == ContactsOf(docs, a.req.setName)
            new == ValidPhones(a.req.rows) \ Phones(held)
            tail == SubSeq(now, Len(held) + 1, Len(now))
        IN  a.kind = "upload" =>
              IF ValidPhones(a.req.rows) = {}
              THEN a.status = 400 /\ docs = a.before
              ELSE /\ a.status = 200
                   /\ SubSeq(now, 1, Len(held)) = held
                   /\ Len(tail) = Cardinality(new)
                   /\ Phones(tail) = new
                   /\ a.body.added = Cardinality(new)
                   /\ a.body.count = Len(now)

\* C10 happens: rows [John, 0712345678] and [0712345678] into a set that does
\* not exist store one contact, with phone 255712345678
C10_Witness ==
    \E p \in DOMAIN resp :
        /\ resp[p].kind = "upload"
        /\ resp[p].status = 200
        /\ resp[p].req.rows = <<[name |-> John, phone |-> R1a], [name |-> <<>>, phone |-> R1a]>>
        /\ ContactsOf(resp[p].before, resp[p].req.setName) = <<>>
        /\ Len(ContactsOf(docs, resp[p].req.setName)) = 1
        /\ ContactsOf(docs, resp[p].req.setName)[1].phone = P1
        /\ ContactsOf(docs, resp[p].req.setName)[1].name = John
        /\ resp[p].body = [added |-> 1, count |-> 1]

====
